---------------------------- MODULE Spec2Model ----------------------------
(***************************************************************************)
(* Model of week_10/SQLAgent: the SafeSQLTool._run safety filter (app.py), *)
(* the /api/query endpoint with its quota fallback (app.py) and the        *)
(* interactive menu of the CLI harness (cli_test.py).                      *)
(*                                                                         *)
(* Text is modelled as a sequence of one-character strings, so that the    *)
(* regular expressions, strip(), lower() and the substring tests of the    *)
(* code are computed character by character.                               *)
(***************************************************************************)
EXTENDS Integers, Sequences, FiniteSets, TLC

VARIABLES sql, toolPc, sent, ret, raised, db,
          request, apiPc, excLog, response, agentInits, agentInvokes,
          fallbackCalls, dbLog,
          cliPc, cliLog

toolVars == <<sql, toolPc, sent, ret, raised, db>>
apiVars  == <<request, apiPc, excLog, response, agentInits, agentInvokes,
              fallbackCalls, dbLog>>
cliVars  == <<cliPc, cliLog>>
vars     == <<toolVars, apiVars, cliVars>>

(***************************************************************************)
(* Bounds of the model.                                                    *)
(***************************************************************************)
\* number of fragments an SQL input is assembled from
MaxFrags == 3
\* number of rows a query returns at most
MaxRows == 2
\* number of fragments a user query is assembled from
MaxWords == 2
\* number of fragments an exception message is assembled from
MaxMsg == 2
\* number of lines the user types into the CLI
MaxInputs == 3

None == "None"

(***************************************************************************)
(* Characters and the Python string / re primitives the code uses.         *)
(***************************************************************************)
UpperLetters ==
  <<"A","B","C","D","E","F","G","H","I","J","K","L","M",
    "N","O","P","Q","R","S","T","U","V","W","X","Y","Z">>

LowerLetters ==
  <<"a","b","c","d","e","f","g","h","i","j","k","l","m",
    "n","o","p","q","r","s","t","u","v","w","x","y","z">>

Digits == {"0","1","2","3","4","5","6","7","8","9"}

Range(f) == {f[i] : i \in DOMAIN f}

UpperSet == Range(UpperLetters)

\* the lower-case letter of each upper-case letter
LowerOf == [c \in UpperSet |-> LowerLetters[CHOOSE i \in 1..26 : UpperLetters[i] = c]]

\* str.lower() on one character
LowerChar(c) == IF c \in UpperSet THEN LowerOf[c] ELSE c

\* str.lower()
Lower(s) == [i \in 1..Len(s) |-> LowerChar(s[i])]

Spaces == {" ", "\t", "\n", "\r", "\f"}

WordChars == Range(UpperLetters) \cup Range(LowerLetters) \cup Digits \cup {"_"}

\* whitespace of str.strip() and of \s
IsSpace(c) == c \in Spaces

\* \d
IsDigit(c) == c \in Digits

\* \w
IsWordChar(c) == c \in WordChars

\* \w at position i of s; positions outside s hold no word character
WordAt(s, i) == i \in 1..Len(s) /\ IsWordChar(s[i])

\* \b between positions i-1 and i of s
Boundary(s, i) == WordAt(s, i - 1) # WordAt(s, i)

\* str.strip()
Strip(s) ==
  IF \A i \in 1..Len(s) : IsSpace(s[i]) THEN <<>>
  ELSE LET a == CHOOSE i \in 1..Len(s) :
                  ~IsSpace(s[i]) /\ \A j \in 1..(i-1) : IsSpace(s[j])
           b == CHOOSE i \in 1..Len(s) :
                  ~IsSpace(s[i]) /\ \A j \in (i+1)..Len(s) : IsSpace(s[j])
       IN  SubSeq(s, a, b)

\* the literal w occurs in s at position i (case-sensitive)
LitAt(s, i, w) ==
  /\ i >= 1
  /\ i + Len(w) - 1 <= Len(s)
  /\ \A k \in 1..Len(w) : s[i + k - 1] = w[k]

\* the lower-case literal w occurs in s at position i under re.I
LitAtCI(s, i, w) ==
  /\ i >= 1
  /\ i + Len(w) - 1 <= Len(s)
  /\ \A k \in 1..Len(w) : LowerChar(s[i + k - 1]) = w[k]

\* Python's  sub in s
Contains(s, sub) == \E i \in 1..(Len(s) + 1) : LitAt(s, i, sub)

\* str.endswith
EndsWith(s, suf) == Len(suf) <= Len(s) /\ LitAt(s, Len(s) - Len(suf) + 1, suf)

\* str.startswith
StartsWith(s, pre) == LitAt(s, 1, pre)

(***************************************************************************)
(* SafeSQLTool._run (app.py).                                              *)
(***************************************************************************)
WriteKeywords ==
  { <<"i","n","s","e","r","t">>,
    <<"u","p","d","a","t","e">>,
    <<"d","e","l","e","t","e">>,
    <<"d","r","o","p">>,
    <<"t","r","u","n","c","a","t","e">>,
    <<"a","l","t","e","r">>,
    <<"c","r","e","a","t","e">>,
    <<"r","e","p","l","a","c","e">> }

KwSelect == <<"s","e","l","e","c","t">>
KwLimit  == <<"l","i","m","i","t">>
Semicolon == <<";">>
LimitSuffix == <<" ","L","I","M","I","T"," ","5","0">>

ErrWrite    == [prefix |-> "ERROR: ", body |-> "Write operations are not allowed for security reasons."]
ErrMultiple == [prefix |-> "ERROR: ", body |-> "Multiple statements are not allowed."]
ErrSelect   == [prefix |-> "ERROR: ", body |-> "Only SELECT statements are allowed."]
NoResults   == [prefix |-> "", body |-> "Query executed successfully but returned no results."]

\* re.search(r"\b(w)\b", s, re.I) for one alternative w
SearchWord(s, w) ==
  \E i \in 1..Len(s) :
     /\ Boundary(s, i)
     /\ LitAtCI(s, i, w)
     /\ Boundary(s, i + Len(w))

\* the same search without re.I (the pattern is written in upper case)
HasWriteKeywordCaseSensitive(s) ==
  \E w \in WriteKeywords : \E i \in 1..Len(s) :
     /\ Boundary(s, i)
     /\ i + Len(w) - 1 <= Len(s)
     /\ \A k \in 1..Len(w) :
           s[i + k - 1] \in UpperSet /\ LowerChar(s[i + k - 1]) = w[k]
     /\ Boundary(s, i + Len(w))

\* re.search(r"\b(INSERT|UPDATE|DELETE|DROP|TRUNCATE|ALTER|CREATE|REPLACE)\b", s, re.I)
HasWriteKeyword(s) == \E w \in WriteKeywords : SearchWord(s, w)

\* ";" in s and not s.strip().endswith(";")
HasChainedStatement(s) == Contains(s, Semicolon) /\ ~EndsWith(Strip(s), Semicolon)

\* the match without the trailing \b
MatchSelectNoBoundary(s) ==
  \E k \in 0..Len(s) :
     /\ \A j \in 1..k : IsSpace(s[j])
     /\ LitAtCI(s, k + 1, KwSelect)

\* re.match(r"(?is)^\s*select\b", s)
MatchSelect(s) ==
  \E k \in 0..Len(s) :
     /\ \A j \in 1..k : IsSpace(s[j])
     /\ LitAtCI(s, k + 1, KwSelect)
     /\ Boundary(s, k + 1 + Len(KwSelect))

\* a search for the bare word limit, without the number
SearchLimitWordOnly(s) == SearchWord(s, KwLimit)

\* re.search(r"\blimit\s+\d+\b", s, re.I)
SearchLimit(s) ==
  \E i \in 1..Len(s) :
     /\ Boundary(s, i)
     /\ LitAtCI(s, i, KwLimit)
     /\ \E a \in 1..(Len(s) - i) :
           /\ \A j \in (i + Len(KwLimit))..(i + Len(KwLimit) + a - 1) :
                 j <= Len(s) /\ IsSpace(s[j])
           /\ \E b \in 1..(Len(s) - i) :
                 /\ \A j \in (i + Len(KwLimit) + a)..(i + Len(KwLimit) + a + b - 1) :
                       j <= Len(s) /\ IsDigit(s[j])
                 /\ Boundary(s, i + Len(KwLimit) + a + b)

\* the statement with the default limit appended where the code appends it
WithLimit(s) == IF ~SearchLimit(s) THEN s \o LimitSuffix ELSE s

(***************************************************************************)
(* The database as _run sees it: connecting, executing, fetching the rows  *)
(* or reading the column names fails with a message, or the statement      *)
(* yields columns and rows.                                                *)
(***************************************************************************)
DbMessages == {"no such table: t", "database is locked"}
ColumnLists == {<<"id">>, <<"name">>}
RowValues == {<<1>>, <<2>>}

RECURSIVE SeqsUpTo(_, _)
SeqsUpTo(S, n) ==
  IF n = 0 THEN {<<>>}
  ELSE LET shorter == SeqsUpTo(S, n - 1)
       IN  shorter \cup {Append(q, x) : q \in shorter, x \in S}

DbStages == <<"connect", "execute", "fetchall", "keys">>

DbFailures ==
  [kind : {"fail"}, stage : Range(DbStages), msg : DbMessages,
   columns : {<<>>}, rows : {<<>>}]

DbResults ==
  [kind : {"ok"}, stage : {"done"}, msg : {""},
   columns : ColumnLists, rows : SeqsUpTo(RowValues, MaxRows)]

DbOutcomes == DbFailures \cup DbResults

ErrorOf(msg) == [prefix |-> "ERROR: ", body |-> msg]

\* the payload with a row count that leaves the last row out
SuccessOfShortCount(columns, rows) ==
  [prefix |-> "SUCCESS: ",
   body |-> [columns |-> columns,
             rows |-> [i \in 1..Len(rows) |-> rows[i]],
             row_count |-> Len(rows) - 1]]

\* f"SUCCESS: {result_data}"
SuccessOf(columns, rows) ==
  [prefix |-> "SUCCESS: ",
   body |-> [columns |-> columns,
             rows |-> [i \in 1..Len(rows) |-> rows[i]],
             row_count |-> Len(rows)]]

Outcome(sentTexts, value, exc, used) ==
  [sent |-> sentTexts, ret |-> value, raised |-> exc, db |-> used]

\* the try block with fetchall() left outside it
ExecuteFetchUncaught(s, d) ==
  IF d.kind = "fail" /\ d.stage = "connect"
    THEN Outcome(<<>>, <<ErrorOf(d.msg)>>, <<>>, <<d>>)
  ELSE IF d.kind = "fail" /\ d.stage = "fetchall"
    THEN Outcome(<<s>>, <<>>, <<d.msg>>, <<d>>)
  ELSE IF d.kind = "fail"
    THEN Outcome(<<s>>, <<ErrorOf(d.msg)>>, <<>>, <<d>>)
  ELSE IF d.rows = <<>>
    THEN Outcome(<<s>>, <<NoResults>>, <<>>, <<d>>)
  ELSE Outcome(<<s>>, <<SuccessOf(d.columns, d.rows)>>, <<>>, <<d>>)

\* the try block of _run: connect, exec_driver_sql(s), fetchall, keys, format
Execute(s, d) ==
  IF d.kind = "fail" /\ d.stage = "connect"
    THEN Outcome(<<>>, <<ErrorOf(d.msg)>>, <<>>, <<d>>)
  ELSE IF d.kind = "fail"
    THEN Outcome(<<s>>, <<ErrorOf(d.msg)>>, <<>>, <<d>>)
  ELSE IF d.rows = <<>>
    THEN Outcome(<<s>>, <<NoResults>>, <<>>, <<d>>)
  ELSE Outcome(<<s>>, <<SuccessOf(d.columns, d.rows)>>, <<>>, <<d>>)

Rejected(err) == [ok |-> FALSE, err |-> err, stmt |-> <<>>]
Accepted(stmt) == [ok |-> TRUE, err |-> NoResults, stmt |-> stmt]

\* the security validation of _run: the rejection, or the statement to execute
Validate(text) ==
  LET s == Strip(text)
  IN  IF HasWriteKeyword(s) THEN Rejected(ErrWrite)
      ELSE IF HasChainedStatement(s) THEN Rejected(ErrMultiple)
      ELSE IF ~MatchSelect(s) THEN Rejected(ErrSelect)
      ELSE Accepted(WithLimit(s))

(***************************************************************************)
(* Inputs: texts assembled from a few fragments.                           *)
(***************************************************************************)
RECURSIVE Flatten(_)
Flatten(parts) ==
  IF parts = <<>> THEN <<>> ELSE Head(parts) \o Flatten(Tail(parts))

Texts(frags, n) == {Flatten(p) : p \in SeqsUpTo(frags, n)}

SqlFragments ==
  { <<"S","e","l","e","c","t">>,
    <<"I","N","S","E","R","T">>,
    <<"u","p","d","a","t","e">>,
    <<"D","e","l","e","t","e">>,
    <<"d","r","o","p">>,
    <<"T","R","U","N","C","A","T","E">>,
    <<"a","l","t","e","r">>,
    <<"C","r","e","a","t","e">>,
    <<"r","e","P","l","a","c","e">>,
    <<" ","L","i","m","i","t"," ">>,
    <<" ">>, <<";">>, <<"1">>, <<"x">>, <<"_">>, <<"*">> }

SqlInputs == Texts(SqlFragments, MaxFrags)

ToolIdle ==
  /\ sql = <<>> /\ toolPc = "idle" /\ sent = <<>> /\ ret = <<>>
  /\ raised = <<>> /\ db = <<>>

ApiIdle ==
  /\ request = None /\ apiPc = "idle" /\ excLog = <<>> /\ response = <<>>
  /\ agentInits = 0 /\ agentInvokes = 0 /\ fallbackCalls = <<>> /\ dbLog = <<>>

CliIdle == cliPc = "idle" /\ cliLog = <<>>

\* a call of the tool with some text
InitTool ==
  /\ sql \in SqlInputs
  /\ toolPc = "called" /\ sent = <<>> /\ ret = <<>> /\ raised = <<>> /\ db = <<>>
  /\ ApiIdle /\ CliIdle

\* SafeSQLTool._run, from the call to the return
Run ==
  /\ toolPc = "called"
  /\ \E v \in {Validate(sql)} :
        IF ~v.ok
        THEN /\ sent' = <<>> /\ ret' = <<v.err>> /\ raised' = <<>> /\ db' = <<>>
        ELSE \E d \in DbOutcomes :
               LET o == Execute(v.stmt, d)
               IN  /\ sent' = o.sent
                   /\ ret' = o.ret
                   /\ raised' = o.raised
                   /\ db' = o.db
  /\ toolPc' = "returned"
  /\ UNCHANGED <<sql, apiVars, cliVars>>

NextTool == Run

Spec == InitTool /\ [][NextTool]_vars
(***************************************************************************)
(* Properties of SafeSQLTool._run.  They speak of the text as a reader     *)
(* does: its words are its maximal runs of letters, digits and "_".        *)
(***************************************************************************)
Returned == toolPc = "returned" /\ Len(ret) = 1

\* the returned value is v
Returns(v) == Returned /\ ret[1].prefix = v.prefix /\ ret[1].body = v.body

ReturnsError == Returned /\ ret[1].prefix = "ERROR: "

\* the spans <<i, j>> of the words of text
WordSpans(text) ==
  { <<i, j>> \in (1..Len(text)) \X (1..Len(text)) :
       /\ i <= j
       /\ \A k \in i..j : IsWordChar(text[k])
       /\ (i = 1 \/ ~IsWordChar(text[i - 1]))
       /\ (j = Len(text) \/ ~IsWordChar(text[j + 1])) }

WholeWords(text) == {SubSeq(text, p[1], p[2]) : p \in WordSpans(text)}

\* text contains a write keyword as a whole word, in any letter case
ContainsWriteWord(text) == \E w \in WholeWords(text) : Lower(w) \in WriteKeywords

\* the word text starts with after its leading whitespace (empty when it starts
\* with something else)
FirstWord(text) ==
  LET n == CHOOSE k \in 0..Len(text) :
              /\ \A j \in 1..k : IsSpace(text[j])
              /\ (k = Len(text) \/ ~IsSpace(text[k + 1]))
      m == CHOOSE k \in n..Len(text) :
              /\ \A j \in (n + 1)..k : IsWordChar(text[j])
              /\ (k = Len(text) \/ ~IsWordChar(text[k + 1]))
  IN  SubSeq(text, n + 1, m)

FirstWordIsSelect(text) == Lower(FirstWord(text)) = KwSelect

\* text has a semicolon before the last character of its stripped form
InnerSemicolon(text) ==
  LET s == Strip(text) IN \E i \in 1..(Len(s) - 1) : s[i] = ";"

\* text has a LIMIT clause: the word LIMIT, whitespace, and a number
LimitClause(text) ==
  \E p \in WordSpans(text) : \E q \in WordSpans(text) :
     /\ Lower(SubSeq(text, p[1], p[2])) = KwLimit
     /\ q[1] > p[2] + 1
     /\ \A j \in (p[2] + 1)..(q[1] - 1) : IsSpace(text[j])
     /\ \A j \in q[1]..q[2] : IsDigit(text[j])

\* the call was not turned down by one of the three rejection checks
PassedChecks ==
  /\ Returned
  /\ ~Returns(ErrWrite) /\ ~Returns(ErrMultiple) /\ ~Returns(ErrSelect)

DbAnswered == db # <<>>

\* C1: a text that contains INSERT, UPDATE, DELETE, DROP, TRUNCATE, ALTER,
\* CREATE or REPLACE as a whole word, in any letter case, is rejected with the
\* write-operations error and nothing is sent to the database.
C1_WriteWordRejected ==
  (toolPc = "returned" /\ ContainsWriteWord(sql))
     => (Returns(ErrWrite) /\ sent = <<>> /\ db = <<>>)

\* a text that starts with SELECT and names a write keyword later was rejected
C1_Witness ==
  /\ Returns(ErrWrite)
  /\ FirstWordIsSelect(sql)
  /\ ContainsWriteWord(sql)
  /\ ~InnerSemicolon(sql)

\* C2 (as claimed): a text with a semicolon anywhere but at the end of its
\* stripped form is rejected with an error and nothing is sent to the database,
\* also when the text ends with a semicolon too.
C2_InnerSemicolonRejected ==
  (toolPc = "returned" /\ InnerSemicolon(sql))
     => (ReturnsError /\ sent = <<>>)

\* C3: a text whose first word after leading whitespace is not SELECT (in any
\* letter case) is rejected with an error and nothing is sent to the database;
\* every statement sent to the database begins with SELECT.
C3_OnlySelectReachesDb ==
  toolPc = "returned" =>
     /\ ~FirstWordIsSelect(sql) => (ReturnsError /\ sent = <<>> /\ db = <<>>)
     /\ \A i \in 1..Len(sent) :
           Lower(SubSeq(sent[i], 1, Len(KwSelect))) = KwSelect

\* a text that starts with the letters of SELECT run into a longer word was
\* rejected as not being a SELECT statement
C3_Witness ==
  /\ Returns(ErrSelect)
  /\ LitAtCI(Strip(sql), 1, KwSelect)
  /\ sent = <<>>

C5_FailureReturnsError ==
  toolPc = "returned" =>
     /\ raised = <<>>
     /\ Len(ret) = 1
     /\ (DbAnswered /\ db[1].kind = "fail") => Returns(ErrorOf(db[1].msg))

\* fetching the rows failed after the statement was sent
C5_Witness ==
  /\ ReturnsError
  /\ DbAnswered /\ db[1].kind = "fail" /\ db[1].stage = "fetchall"
  /\ sent # <<>>

\* C6: when the statement executes without failure, the "no results" string is
\* returned exactly when there are zero rows; otherwise "SUCCESS: " with the
\* column names, all rows in order and row_count = number of rows >= 1.
C6_SuccessPayload ==
  (Returned /\ DbAnswered /\ db[1].kind = "ok") =>
     /\ Returns(NoResults) <=> db[1].rows = <<>>
     /\ db[1].rows # <<>> =>
          /\ ret[1].prefix = "SUCCESS: "
          /\ ret[1].body.columns = db[1].columns
          /\ ret[1].body.rows = db[1].rows
          /\ ret[1].body.row_count = Len(ret[1].body.rows)
          /\ ret[1].body.row_count >= 1

\* a query that returned two rows
C6_Witness ==
  /\ Returned
  /\ ret[1].prefix = "SUCCESS: "
  /\ ret[1].body.row_count = 2
  /\ Len(db[1].rows) = 2
(***************************************************************************)
(* The /api/query endpoint (app.py): query_agent, handle_quota_exceeded    *)
(* and the get_*_data fallbacks.                                           *)
(***************************************************************************)
Kw429       == <<"4","2","9">>
KwQuota     == <<"q","u","o","t","a">>
KwCustomers == <<"c","u","s","t","o","m","e","r","s">>
KwProducts  == <<"p","r","o","d","u","c","t","s">>
KwOrders    == <<"o","r","d","e","r","s">>
KwRevenue   == <<"r","e","v","e","n","u","e">>
KwTotal     == <<"t","o","t","a","l">>
SuccessPrefix == <<"S","U","C","C","E","S","S",":"," ">>

SqlCustomers == "SELECT * FROM customers LIMIT 20"
SqlProducts  == "SELECT * FROM products LIMIT 20"
SqlOrders    == "SELECT * FROM orders LIMIT 20"
SqlRevenue   == "SELECT SUM(oi.quantity * oi.unit_price_cents) ... FROM orders o JOIN order_items oi ON o.id = oi.order_id"

\* jsonify({'error': text}), status
ErrorResponse(status, text, detail) ==
  [status |-> status, error |-> <<[text |-> text, detail |-> detail]>>,
   success |-> <<>>, message |-> <<>>, data |-> <<>>]

\* jsonify({'success': .., 'message': .., 'data': ..}); data <<>> is null
JsonResponse(success, text, detail, data) ==
  [status |-> 200, error |-> <<>>, success |-> <<success>>,
   message |-> <<[text |-> text, detail |-> detail]>>, data |-> data]

ServerError(msg) == ErrorResponse(500, "Server error: ", msg)
NoQueryResponse == ErrorResponse(400, "No query provided", <<>>)
InitFailedResponse ==
  ErrorResponse(500, "Failed to initialize SQL agent. Check your API key.", <<>>)
QuotaMessage ==
  [text |-> "API quota exceeded. Please try again later or upgrade your plan. For now, try asking about \"customers\", \"products\", or \"orders\".",
   detail |-> <<>>]

Payload(columns, rows) ==
  [columns |-> columns, rows |-> [i \in 1..Len(rows) |-> rows[i]],
   row_count |-> Len(rows)]

\* what the handler leaves behind
Effect(resp, inits, invokes, excs, calls, queries) ==
  [response |-> resp, agentInits |-> inits, agentInvokes |-> invokes,
   excLog |-> excs, fallbackCalls |-> calls, dbLog |-> queries]

\* get_customers_data, get_products_data, get_orders_data, get_revenue_data:
\* fn runs query against a database that answers d
GetData(fn, query, found, d) ==
  IF d.kind = "fail"
  THEN [response |-> JsonResponse(FALSE, "Database error: ", d.msg, <<>>),
        calls |-> <<fn>>,
        queries |-> IF d.stage = "connect" THEN <<>> ELSE <<query>>]
  ELSE [response |-> JsonResponse(TRUE, found, <<>>, <<Payload(d.columns, d.rows)>>),
        calls |-> <<fn>>,
        queries |-> <<query>>]

\* the keyword tests made on the query as typed, without lower()
HandleQuotaExceededNoLower(user_query, d) ==
  IF Contains(user_query, KwCustomers)
    THEN GetData("get_customers_data", SqlCustomers, "Found customers", d)
  ELSE IF Contains(user_query, KwProducts)
    THEN GetData("get_products_data", SqlProducts, "Found products", d)
  ELSE IF Contains(user_query, KwOrders)
    THEN GetData("get_orders_data", SqlOrders, "Found orders", d)
  ELSE IF Contains(user_query, KwRevenue) \/ Contains(user_query, KwTotal)
    THEN GetData("get_revenue_data", SqlRevenue, "Revenue analysis", d)
  ELSE [response |-> JsonResponse(FALSE, QuotaMessage.text, <<>>, <<>>),
        calls |-> <<>>, queries |-> <<>>]

\* handle_quota_exceeded(user_query)
HandleQuotaExceeded(user_query, d) ==
  LET query_lower == Lower(user_query)
  IN  IF Contains(query_lower, KwCustomers)
        THEN GetData("get_customers_data", SqlCustomers, "Found customers", d)
      ELSE IF Contains(query_lower, KwProducts)
        THEN GetData("get_products_data", SqlProducts, "Found products", d)
      ELSE IF Contains(query_lower, KwOrders)
        THEN GetData("get_orders_data", SqlOrders, "Found orders", d)
      ELSE IF Contains(query_lower, KwRevenue) \/ Contains(query_lower, KwTotal)
        THEN GetData("get_revenue_data", SqlRevenue, "Revenue analysis", d)
      ELSE [response |-> JsonResponse(FALSE, QuotaMessage.text, <<>>, <<>>),
            calls |-> <<>>, queries |-> <<>>]

\* the test with lower() applied to neither side
IsQuotaErrorCaseSensitive(error_msg) ==
  Contains(error_msg, Kw429) \/ Contains(error_msg, KwQuota)

\* "429" in error_msg or "quota" in error_msg.lower()
IsQuotaError(error_msg) ==
  Contains(error_msg, Kw429) \/ Contains(Lower(error_msg), KwQuota)

\* except Exception as api_error: of the inner try
OnApiError(user_query, where, msg, d) ==
  IF IsQuotaError(msg)
  THEN LET f == HandleQuotaExceeded(user_query, d)
       IN  Effect(f.response, 1, 1, <<[where |-> where, msg |-> msg]>>,
                  <<"handle_quota_exceeded">> \o f.calls, f.queries)
  ELSE Effect(ServerError(msg), 1, 1, <<[where |-> where, msg |-> msg]>>,
              <<>>, <<>>)

\* the handling of response['output']
OnOutput(result) ==
  IF StartsWith(result.text, SuccessPrefix)
  THEN IF result.json = "valid"
       THEN JsonResponse(TRUE, "Query executed successfully. Found rows.", <<>>,
                         <<Payload(result.columns, result.rows)>>)
       ELSE JsonResponse(TRUE, "result", result.text, <<>>)
  ELSE JsonResponse(FALSE, "result", result.text, <<>>)

KeyErrorOutput == <<"'","o","u","t","p","u","t","'">>

\* the inner try of query_agent, for a non-empty user_query, in a run where
\* initialising the agent, invoking it and the database behave as e says
AskAgent(user_query, e) ==
  IF e.init.kind = "raise"
    THEN Effect(InitFailedResponse, 1, 0,
                <<[where |-> "init", msg |-> e.init.msg]>>, <<>>, <<>>)
  ELSE IF e.invoke.kind = "raise"
    THEN OnApiError(user_query, "invoke", e.invoke.msg, e.fdb)
  ELSE IF e.invoke.kind = "no_output"
    THEN OnApiError(user_query, "output", KeyErrorOutput, e.fdb)
  ELSE Effect(OnOutput(e.invoke), 1, 1, <<>>, <<>>, <<>>)

AttributeErrorGet   == <<"n","o"," ","a","t","t","r","i","b","u","t","e"," ","'","g","e","t","'">>
AttributeErrorStrip == <<"n","o"," ","a","t","t","r","i","b","u","t","e"," ","'","s","t","r","i","p","'">>
UnsupportedMedia    == <<"4","1","5"," ","U","n","s","u","p","p","o","r","t","e","d">>

Answer(resp) == Effect(resp, 0, 0, <<>>, <<>>, <<>>)

\* the query taken as typed, without strip()
ParseRequestNoStrip(req) ==
  IF req.json = "unsupported" THEN [ok |-> FALSE, effect |-> Answer(ServerError(UnsupportedMedia)), query |-> <<>>]
  ELSE IF req.json # "object" THEN [ok |-> FALSE, effect |-> Answer(ServerError(AttributeErrorGet)), query |-> <<>>]
  ELSE IF req.field \in {"null", "number"}
    THEN [ok |-> FALSE, effect |-> Answer(ServerError(AttributeErrorStrip)), query |-> <<>>]
  ELSE LET user_query == IF req.field = "missing" THEN <<>> ELSE req.query
       IN  IF user_query = <<>>
           THEN [ok |-> FALSE, effect |-> Answer(NoQueryResponse), query |-> <<>>]
           ELSE [ok |-> TRUE, effect |-> Answer(NoQueryResponse), query |-> user_query]

\* query_agent up to the inner try: get_json(), data.get('query', '').strip()
\* and the empty-query answer; ok when the agent is to be asked
ParseRequest(req) ==
  IF req.json = "unsupported" THEN [ok |-> FALSE, effect |-> Answer(ServerError(UnsupportedMedia)), query |-> <<>>]
  ELSE IF req.json # "object" THEN [ok |-> FALSE, effect |-> Answer(ServerError(AttributeErrorGet)), query |-> <<>>]
  ELSE IF req.field \in {"null", "number"}
    THEN [ok |-> FALSE, effect |-> Answer(ServerError(AttributeErrorStrip)), query |-> <<>>]
  ELSE LET user_query == Strip(IF req.field = "missing" THEN <<>> ELSE req.query)
       IN  IF user_query = <<>>
           THEN [ok |-> FALSE, effect |-> Answer(NoQueryResponse), query |-> <<>>]
           ELSE [ok |-> TRUE, effect |-> Answer(NoQueryResponse), query |-> user_query]

(***************************************************************************)
(* Requests and the behaviour of the agent service and of the database.    *)
(***************************************************************************)
QueryFragments ==
  { <<"C","u","s","t","o","m","e","r","s">>,
    <<"p","r","o","d","u","c","t","s">>,
    <<"O","R","D","E","R","S">>,
    <<"r","e","v","e","n","u","e">>,
    <<"T","o","t","a","l">>,
    <<"o","r","d","e","r">>,
    <<" ">> }

MsgFragments ==
  { <<"4","2">>, <<"9">>, <<"Q","u","o">>, <<"t","a">>, <<"e","r","r">>, <<" ">> }

QueryTexts == Texts(QueryFragments, MaxWords)
Messages == Texts(MsgFragments, MaxMsg)

Requests ==
  [json : {"unsupported", "null", "list"}, field : {"missing"}, query : {<<>>}]
  \cup [json : {"object"}, field : {"missing", "null", "number"}, query : {<<>>}]
  \cup [json : {"object"}, field : {"string"}, query : QueryTexts]

Unreached ==
  [kind |-> "unreached", stage |-> "", msg |-> <<>>, text |-> <<>>, json |-> "",
   columns |-> <<>>, rows |-> <<>>]

Raise(msg) == [Unreached EXCEPT !.kind = "raise", !.msg = msg]

InitOk == [Unreached EXCEPT !.kind = "ok"]

OutputTexts ==
  { SuccessPrefix, Lower(SuccessPrefix), <<"E","R","R","O","R",":"," ">>,
    <<"4","2","9">> }

InvokeReturns ==
  {[Unreached EXCEPT !.kind = "return", !.text = x, !.json = j,
                     !.columns = <<"id">>, !.rows = r] :
      x \in OutputTexts, j \in {"valid", "invalid"}, r \in {<<<<1>>>>}}

InvokeOutcomes ==
  {Raise(m) : m \in Messages} \cup {[Unreached EXCEPT !.kind = "no_output"]}
  \cup InvokeReturns

FallbackDb ==
  {[Unreached EXCEPT !.kind = "fail", !.stage = s, !.msg = <<"l","o","c","k","e","d">>] :
      s \in {"connect", "execute"}}
  \cup {[Unreached EXCEPT !.kind = "ok", !.columns = <<"id">>, !.rows = r] :
           r \in SeqsUpTo({<<1>>}, MaxRows)}

\* the runs of one request past the empty-query check
Scenarios ==
  {[init |-> Raise(m), invoke |-> Unreached, fdb |-> Unreached] : m \in Messages}
  \cup {[init |-> InitOk, invoke |-> v, fdb |-> Unreached] : v \in InvokeReturns}
  \cup {[init |-> InitOk, invoke |-> v, fdb |-> d] :
           v \in InvokeOutcomes \ InvokeReturns, d \in FallbackDb}

InitApi ==
  /\ request \in Requests
  /\ apiPc = "received" /\ excLog = <<>> /\ response = <<>>
  /\ agentInits = 0 /\ agentInvokes = 0 /\ fallbackCalls = <<>> /\ dbLog = <<>>
  /\ ToolIdle /\ CliIdle

Leave(o) ==
  /\ response' = <<o.response>>
  /\ agentInits' = o.agentInits
  /\ agentInvokes' = o.agentInvokes
  /\ excLog' = o.excLog
  /\ fallbackCalls' = o.fallbackCalls
  /\ dbLog' = o.dbLog

\* query_agent, from the request to the response
QueryAgent ==
  /\ apiPc = "received"
  /\ \E p \in {ParseRequest(request)} :
        IF ~p.ok THEN Leave(p.effect)
        ELSE \E e \in Scenarios : Leave(AskAgent(p.query, e))
  /\ apiPc' = "responded"
  /\ UNCHANGED <<request, toolVars, cliVars>>

NextApi == QueryAgent

SpecApi == InitApi /\ [][NextApi]_vars
(***************************************************************************)
(* Properties of the endpoint.                                             *)
(***************************************************************************)
Responded == apiPc = "responded" /\ Len(response) = 1

\* the request carries a query that is not empty after stripping
NonEmptyQuery ==
  /\ request.json = "object" /\ request.field = "string"
  /\ \E i \in 1..Len(request.query) : ~IsSpace(request.query[i])

\* the message names a quota error: it contains "429" or, in any case, "quota"
QuotaText(msg) ==
  \/ \E i \in 1..(Len(msg) - 2) : SubSeq(msg, i, i + 2) = Kw429
  \/ \E i \in 1..(Len(msg) - 4) : Lower(SubSeq(msg, i, i + 4)) = KwQuota

FallbackTaken == fallbackCalls # <<>>

RaisedIn(places) == \E i \in 1..Len(excLog) : excLog[i].where \in places

QuotaRaisedIn(places) ==
  \E i \in 1..Len(excLog) : excLog[i].where \in places /\ QuotaText(excLog[i].msg)

IsServerError ==
  /\ response[1].status = 500
  /\ Len(response[1].error) = 1
  /\ response[1].error[1].text = "Server error: "

\* C7 (as claimed): for a non-empty query the fallback is taken exactly when
\* initialising or invoking the agent raises an exception whose message
\* contains "429" or "quota"; any other exception raised there yields HTTP 500
\* 'Server error: ...' and no fallback query; without an exception no fallback
\* query is run.
C7_FallbackOnInitOrInvokeQuota ==
  (Responded /\ NonEmptyQuery) =>
     /\ FallbackTaken <=> QuotaRaisedIn({"init", "invoke", "output"})
     /\ (excLog # <<>> /\ ~QuotaRaisedIn({"init", "invoke", "output"}))
           => (IsServerError /\ dbLog = <<>>)
     /\ excLog = <<>> => (~FallbackTaken /\ dbLog = <<>>)

\* C7 (amended): the fallback is taken exactly when invoking the agent, or
\* reading its output, raises an exception whose message contains "429" or
\* "quota"; any other exception raised by the invocation yields HTTP 500
\* 'Server error: <message>' and no fallback query; an exception raised while
\* initialising the agent, whatever its message, yields HTTP 500 'Failed to
\* initialize SQL agent. Check your API key.', no invocation and no fallback;
\* without an exception no fallback query is run.
C7_FallbackOnInvokeQuota ==
  (Responded /\ NonEmptyQuery) =>
     /\ agentInits = 1
     /\ FallbackTaken <=> QuotaRaisedIn({"invoke", "output"})
     /\ (RaisedIn({"invoke", "output"}) /\ ~QuotaRaisedIn({"invoke", "output"}))
           => /\ IsServerError
              /\ response[1].error[1].detail = excLog[1].msg
              /\ dbLog = <<>>
     /\ RaisedIn({"init"})
           => /\ response[1] = InitFailedResponse
              /\ agentInvokes = 0 /\ ~FallbackTaken /\ dbLog = <<>>
     /\ excLog = <<>> => (~FallbackTaken /\ dbLog = <<>>)

\* the invocation failed with a message that says Quota, not 429, and the
\* fallback was taken
C7_Witness ==
  /\ Responded /\ NonEmptyQuery
  /\ FallbackTaken
  /\ excLog[1].where = "invoke"
  /\ \A i \in 1..(Len(excLog[1].msg) - 2) : SubSeq(excLog[1].msg, i, i + 2) # Kw429

FallbackKeywords ==
  << {KwCustomers}, {KwProducts}, {KwOrders}, {KwRevenue, KwTotal} >>

FallbackFunctions ==
  << "get_customers_data", "get_products_data", "get_orders_data", "get_revenue_data" >>

FallbackQueries == << SqlCustomers, SqlProducts, SqlOrders, SqlRevenue >>

\* the ranks of the keywords the lower-cased query contains
Matching(query) ==
  { r \in 1..4 : \E k \in FallbackKeywords[r] :
       \E i \in 1..(Len(query) - Len(k) + 1) :
          Lower(SubSeq(query, i, i + Len(k) - 1)) = k }

\* C8: handle_quota_exceeded runs exactly the fallback of the first keyword, in
\* the order customers, products, orders, revenue/total, that the lower-cased
\* query contains; with no keyword it runs no query and answers success=false,
\* data=null and the 'API quota exceeded' message.
C8_FirstKeywordWins ==
  (Responded /\ FallbackTaken) =>
     LET m == Matching(request.query)
     IN  IF m = {}
         THEN /\ fallbackCalls = <<"handle_quota_exceeded">>
              /\ dbLog = <<>>
              /\ response[1].status = 200
              /\ response[1].success = <<FALSE>>
              /\ response[1].data = <<>>
              /\ response[1].message = <<QuotaMessage>>
         ELSE LET r == CHOOSE x \in m : \A y \in m : x <= y
              IN  /\ fallbackCalls = <<"handle_quota_exceeded", FallbackFunctions[r]>>
                  /\ dbLog \in {<<>>, <<FallbackQueries[r]>>}
                  /\ response[1].success = <<TRUE>> => dbLog = <<FallbackQueries[r]>>

\* a query naming two of the keywords got the fallback of the first in rank
C8_Witness ==
  /\ Responded /\ FallbackTaken
  /\ Cardinality(Matching(request.query)) >= 2
  /\ Len(dbLog) = 1
  /\ response[1].success = <<TRUE>>

\* C9: a request whose 'query' field is missing, empty or only whitespace is
\* answered 400 {'error': 'No query provided'}; the agent is neither
\* initialised nor invoked and no database query is run.
C9_EmptyQueryRejected ==
  (Responded /\ request.json = "object" /\ request.field \in {"missing", "string"}
     /\ \A i \in 1..Len(request.query) : IsSpace(request.query[i])) =>
     /\ response[1] = NoQueryResponse
     /\ agentInits = 0 /\ agentInvokes = 0
     /\ fallbackCalls = <<>> /\ dbLog = <<>> /\ excLog = <<>>

\* a query of whitespace only was answered 400
C9_Witness ==
  /\ Responded
  /\ request.field = "string" /\ Len(request.query) > 0
  /\ response[1].status = 400
(***************************************************************************)
(* The CLI harness (cli_test.py): main and the loop of interactive_mode.   *)
(* cliLog records, in order, the lines typed, the scripts executed and the *)
(* messages printed.                                                       *)
(***************************************************************************)
Typed(line)  == [ev |-> "input", what |-> "", text |-> line]
Printed(msg) == [ev |-> "print", what |-> msg, text |-> <<>>]
Executed(script) == [ev |-> "exec", what |-> script, text |-> <<>>]

Script00 == "scripts/00_simple_llm.py"
Script01 == "scripts/01_simple_agent.py"
Script02 == "scripts/02_risky_delete_demo.py"
Script03 == "scripts/03_guardrailed_agent.py"
Script04 == "scripts/04_complex_queries.py"

\* test_script_00 .. test_script_04: exec the script; ok when it does not raise
TestScript(script, ok) ==
  << Executed(script),
     Printed(IF ok THEN "completed successfully" ELSE "failed") >>

Warning == Printed("WARNING: This script demonstrates dangerous patterns!")

\* the lines a user types
Lines ==
  { <<"q">>, <<"0">>, <<"1">>, <<"2">>, <<" ","2"," ">>, <<"3">>, <<"4">>, <<"5">>,
    <<"y">>, <<" ","Y">>, <<"n">>, <<>> }

InputsTyped == Cardinality({i \in 1..Len(cliLog) : cliLog[i].ev = "input"})

InitCli ==
  /\ cliPc = "main" /\ cliLog = <<>>
  /\ ToolIdle /\ ApiIdle

\* main(): the checks of the API key and of the database file
Main ==
  /\ cliPc = "main"
  /\ \E key \in BOOLEAN, dbfile \in BOOLEAN :
        IF ~key
          THEN cliPc' = "exited" /\ cliLog' = <<Printed("ERROR: GEMINI_API_KEY not found in environment!")>>
        ELSE IF ~dbfile
          THEN cliPc' = "exited" /\ cliLog' = <<Printed("ERROR: Database file not found!")>>
        ELSE cliPc' = "menu" /\ cliLog' = <<Printed("Interactive SQL Agent Testing")>>
  /\ UNCHANGED <<toolVars, apiVars>>

\* one pass of the while loop up to the next input(): the choice is read
Choose ==
  /\ cliPc = "menu"
  /\ InputsTyped < MaxInputs
  /\ \E line \in Lines : \E ok \in [1..5 -> BOOLEAN] :
        LET choice == Lower(Strip(line))
            log == Append(cliLog, Typed(line))
        IN  IF choice = <<"q">>
              THEN cliPc' = "exited" /\ cliLog' = Append(log, Printed("Goodbye!"))
            ELSE IF choice = <<"0">>
              THEN cliPc' = "menu" /\ cliLog' = log \o TestScript(Script00, ok[1])
            ELSE IF choice = <<"1">>
              THEN cliPc' = "menu" /\ cliLog' = log \o TestScript(Script01, ok[2])
            ELSE IF choice = <<"2">>
              THEN cliPc' = "confirm" /\ cliLog' = Append(log, Warning)
            ELSE IF choice = <<"3">>
              THEN cliPc' = "menu" /\ cliLog' = log \o TestScript(Script03, ok[4])
            ELSE IF choice = <<"4">>
              THEN cliPc' = "menu" /\ cliLog' = log \o TestScript(Script04, ok[5])
            ELSE IF choice = <<"5">>
              THEN /\ cliPc' = "menu"
                   /\ cliLog' = Append(log, Printed("Testing all scripts..."))
                                  \o TestScript(Script00, ok[1])
                                  \o TestScript(Script01, ok[2])
                                  \o TestScript(Script02, ok[3])
                                  \o TestScript(Script03, ok[4])
                                  \o TestScript(Script04, ok[5])
                                  \o <<Printed("All tests completed!")>>
            ELSE cliPc' = "menu" /\ cliLog' = Append(log, Printed("Invalid choice. Please select 0-5 or q."))
  /\ UNCHANGED <<toolVars, apiVars>>

\* the answer to "Continue? (y/N): " is read
Confirm ==
  /\ cliPc = "confirm"
  /\ InputsTyped < MaxInputs
  /\ \E line \in Lines : \E ok \in BOOLEAN :
        LET confirm == Lower(Strip(line))
            log == Append(cliLog, Typed(line))
        IN  IF confirm = <<"y">>
            THEN cliLog' = log \o TestScript(Script02, ok)
            ELSE cliLog' = Append(log, Printed("Skipped."))
  /\ cliPc' = "menu"
  /\ UNCHANGED <<toolVars, apiVars>>

\* input() raises EOFError at either prompt: nothing catches it
EndOfInput ==
  /\ cliPc \in {"menu", "confirm"}
  /\ cliPc' = "aborted"
  /\ UNCHANGED <<cliLog, toolVars, apiVars>>

NextCli == Main \/ Choose \/ Confirm \/ EndOfInput

SpecCli == InitCli /\ [][NextCli]_vars

\* C10 (as claimed): over every sequence of menu inputs, script 02 is executed
\* only right after the warning was printed and the user answered 'y' to the
\* confirmation prompt.
C10_Script02OnlyAfterConfirm ==
  \A i \in 1..Len(cliLog) :
     (cliLog[i].ev = "exec" /\ cliLog[i].what = Script02) =>
        /\ i >= 3
        /\ cliLog[i - 1].ev = "input"
        /\ Lower(Strip(cliLog[i - 1].text)) = <<"y">>
        /\ cliLog[i - 2] = Warning
=============================================================================
